---- MODULE Spec2Model ----
(***************************************************************************)
(* A model of the tagged-netstring codec of qtnetstring.cpp: dump() turns  *)
(* a QVariant tree into a frame, parse() turns a buffer into a QVariant.   *)
(*                                                                         *)
(* A byte is a one-character string and a QByteArray a sequence of bytes,  *)
(* indexed from 0 in the code and from 1 in TLA+ (at, mid and indexOf do   *)
(* the shift).  parse() is a machine that takes one step per call of       *)
(* parse_payload and per exit of a sub-frame loop; the stack holds the     *)
(* parse_list and parse_map calls in progress.  dump() has no loop that    *)
(* depends on the bytes it produced and is an operator.                    *)
(***************************************************************************)
EXTENDS Integers, Sequences, FiniteSets, TLC

VARIABLES
    src,        \* the QVariant handed to dump(), NoSource when the buffer is given
    dumped,     \* what dump() returned: [tns, ok], NoDump before the call
    buf,        \* the buffer handed to parse()
    pc,         \* "dump", "ready", "parsing", "done", "aborted"
    stack,      \* the parse_list / parse_map calls in progress, innermost last
    ok,         \* parse()'s ok
    value,      \* parse()'s return value
    call,       \* the locals of the last parse_payload call
    undefined,  \* a read outside the buffer or a signed overflow has happened
    prev        \* the result of parse() on the buffer before bytes were appended

vars == <<src, dumped, buf, pc, stack, ok, value, call, undefined, prev>>

----------------------------------------------------------------------------
(* Bounds of the model *)

MaxLen == 4          \* buffers of every length up to MaxLen over Alphabet
MaxItems == 3        \* pieces in the payload of a generated composite frame
MaxList == 2         \* elements of a generated QList
MaxAppend == 7       \* elements a sub-frame loop may collect (the loop of a
                     \* buffer that never ends is cut here)

----------------------------------------------------------------------------
(* Bytes *)

TNS_BOOL == "!"
TNS_MAP == "}"
TNS_FLOAT == "^"
TNS_INT == "#"
TNS_LIST == "]"
TNS_NULL == "~"
TNS_STRING == ","
COLON == ":"

DigitChars == <<"0", "1", "2", "3", "4", "5", "6", "7", "8", "9">>
IsDigit(c) == \E i \in 1..10 : DigitChars[i] = c
DigitVal(c) == (CHOOSE i \in 1..10 : DigitChars[i] = c) - 1
IsSpace(c) == c \in {" ", "\t", "\n", "\r"}

\* The bytes of the model in ASCII order: QString's operator< orders QMap keys.
AsciiOrder == <<"\t", "\n", "\r", " ", "!", "#", "+", ",", "-", ".",
                "0", "1", "2", "3", "4", "5", "6", "7", "8", "9", ":",
                "T", "]", "^", "a", "b", "e", "f", "l", "r", "s", "t", "u",
                "x", "}", "~">>
Ord(c) == CHOOSE i \in 1..Len(AsciiOrder) : AsciiOrder[i] = c

RECURSIVE StringLess(_, _)
StringLess(a, b) ==
    IF b = <<>> THEN FALSE
    ELSE IF a = <<>> THEN TRUE
    ELSE IF Head(a) # Head(b) THEN Ord(Head(a)) < Ord(Head(b))
    ELSE StringLess(Tail(a), Tail(b))

INT_MAX == 2147483647
INT_MIN == (-INT_MAX) - 1

\* int + int as a two's-complement build computes it
Add32(a, b) ==
    IF b > 0 /\ a > INT_MAX - b THEN (a - INT_MAX - 1) + (b - INT_MAX - 1)
    ELSE IF b < 0 /\ a < INT_MIN - b THEN (a + INT_MAX + 1) + (b + INT_MAX + 1)
    ELSE a + b
Overflows(a, b) == (b > 0 /\ a > INT_MAX - b) \/ (b < 0 /\ a < INT_MIN - b)

----------------------------------------------------------------------------
(* QByteArray *)

at(ba, i) == ba[i + 1]

\* QByteArray::indexOf(ch, from): a negative from counts from the end
indexOf(ba, ch, from) ==
    LET f == IF from >= 0 THEN from
             ELSE IF from + Len(ba) > 0 THEN from + Len(ba) ELSE 0
    IN  IF \E i \in f..(Len(ba) - 1) : at(ba, i) = ch
        THEN CHOOSE i \in f..(Len(ba) - 1) :
                 at(ba, i) = ch /\ \A j \in f..(i - 1) : at(ba, j) # ch
        ELSE -1

\* QByteArray::mid(pos, len): a negative len takes the rest of the array
mid(ba, pos, len) ==
    IF Len(ba) = 0 \/ pos >= Len(ba) THEN <<>>
    ELSE LET l1 == IF len < 0 THEN Len(ba) - pos ELSE len
             l2 == IF pos < 0 THEN l1 + pos ELSE l1
             p  == IF pos < 0 THEN 0 ELSE pos
             l3 == IF l2 > Len(ba) - p THEN Len(ba) - p ELSE l2
         IN  SubSeq(ba, p + 1, p + l3)

\* QByteArray::number of a natural number
RECURSIVE NatText(_)
NatText(n) ==
    IF n < 10 THEN <<DigitChars[n + 1]>>
    ELSE NatText(n \div 10) \o <<DigitChars[(n % 10) + 1]>>

RECURSIVE SkipSpace(_)
SkipSpace(s) == IF s # <<>> /\ IsSpace(Head(s)) THEN SkipSpace(Tail(s)) ELSE s

RECURSIVE StripZeros(_)
StripZeros(s) == IF Len(s) > 1 /\ Head(s) = "0" THEN StripZeros(Tail(s)) ELSE s

AllDigits(s) == \A i \in 1..Len(s) : IsDigit(s[i])

RECURSIVE DigitsLeq(_, _)
\* a <= b for digit strings of one length
DigitsLeq(a, b) ==
    IF a = <<>> THEN TRUE
    ELSE IF Head(a) # Head(b) THEN DigitVal(Head(a)) < DigitVal(Head(b))
    ELSE DigitsLeq(Tail(a), Tail(b))

RECURSIVE NegAccum(_, _)
\* minus the number the digits spell, built below zero so that INT_MIN is reached
NegAccum(s, acc) ==
    IF s = <<>> THEN acc ELSE NegAccum(Tail(s), (acc * 10) - DigitVal(Head(s)))

\* strtoll on t, the array after its leading white space: a sign, then digits
\* to the end of the array
Signed(t) == t # <<>> /\ Head(t) \in {"-", "+"}
Unsigned(t) == IF Signed(t) THEN Tail(t) ELSE t
NumeralOf(t) ==
    [ok  |-> Unsigned(t) # <<>> /\ AllDigits(Unsigned(t)),
     neg |-> t # <<>> /\ Head(t) = "-",
     mag |-> StripZeros(Unsigned(t))]
Numeral(s) == NumeralOf(SkipSpace(s))

IntLimit(neg) ==
    IF neg THEN <<"2", "1", "4", "7", "4", "8", "3", "6", "4", "8">>
    ELSE <<"2", "1", "4", "7", "4", "8", "3", "6", "4", "7">>

\* a numeral that is an int: ok is false outside [INT_MIN, INT_MAX]
IntOf(n) ==
    IF n.ok /\ (Len(n.mag) < 10 \/ (Len(n.mag) = 10 /\ DigitsLeq(n.mag, IntLimit(n.neg))))
    THEN [ok |-> TRUE, v |-> IF n.neg THEN NegAccum(n.mag, 0) ELSE -NegAccum(n.mag, 0)]
    ELSE [ok |-> FALSE, v |-> 0]

\* QByteArray::toInt(&ok)
toInt(s) == IntOf(Numeral(s))

----------------------------------------------------------------------------
(* QVariant *)

Invalid == [t |-> "Invalid"]
BoolV(b) == [t |-> "Bool", b |-> b]
\* an integer of any of the four integer types: its sign and its limbs in base
\* 10^9, the most significant first and not 0 unless it is the only one
LongLongV(neg, limbs) == [t |-> "Int", neg |-> neg, limbs |-> limbs]
\* a double is sign, integer digits, fraction digits
DoubleV(neg, ip, frac) == [t |-> "Double", neg |-> neg, ip |-> ip, frac |-> frac]
BytesV(s) == [t |-> "ByteArray", s |-> s]
StringV(s) == [t |-> "String", s |-> s]
CharV(c) == [t |-> "Char", c |-> c]
ListV(l) == [t |-> "List", l |-> l]
MapV(m) == [t |-> "Map", m |-> m]
DateTimeV(s) == [t |-> "DateTime", s |-> s]
RectV == [t |-> "Rect"]

\* QVariant::setValue(int)
IntV(n) ==
    IF n = INT_MIN THEN LongLongV(TRUE, <<2, 147483648>>)
    ELSE LET a == IF n < 0 THEN -n ELSE n
         IN  LongLongV(n < 0, IF a < 10 ^ 9 THEN <<a>> ELSE <<a \div (10 ^ 9), a % (10 ^ 9)>>)

isNull(v) == v.t = "Invalid"

\* QVariant::canConvert: the rows of Qt's conversion table the model's types use
canConvert(v, t) ==
    CASE t = "ByteArray" -> v.t \in {"ByteArray", "String", "Int", "Bool", "Double"}
      [] t = "String"    -> v.t \in {"ByteArray", "String", "Int", "Bool", "Double",
                                     "Char", "DateTime"}
      [] t = "Bool"      -> v.t \in {"ByteArray", "String", "Int", "Bool", "Double", "Char"}
      [] t = "List"      -> v.t = "List"
      [] t = "Map"       -> v.t = "Map"

RECURSIVE Zeros(_)
Zeros(n) == IF n <= 0 THEN <<>> ELSE <<"0">> \o Zeros(n - 1)

RECURSIVE StripTrailingZeros(_)
StripTrailingZeros(s) ==
    IF s # <<>> /\ s[Len(s)] = "0" THEN StripTrailingZeros(SubSeq(s, 1, Len(s) - 1))
    ELSE s

\* QByteArray::number(qlonglong)
RECURSIVE LimbsText(_)
LimbsText(limbs) ==
    IF limbs = <<>> THEN <<>>
    ELSE Zeros(9 - Len(NatText(Head(limbs)))) \o NatText(Head(limbs)) \o LimbsText(Tail(limbs))
IntText(v) ==
    (IF v.neg THEN <<"-">> ELSE <<>>) \o NatText(Head(v.limbs)) \o LimbsText(Tail(v.limbs))

\* QByteArray::number(double, 'g'): the fraction is written when there is one
DoubleText(v) ==
    (IF v.neg THEN <<"-">> ELSE <<>>) \o v.ip
    \o (IF v.frac # <<>> THEN <<".">> \o v.frac ELSE <<>>)

\* QVariant::toByteArray / toString().toAscii() of a value canConvert allows
toByteArray(v) ==
    CASE v.t \in {"ByteArray", "String", "DateTime"} -> v.s
      [] v.t = "Char"   -> <<v.c>>
      [] v.t = "Int"    -> IntText(v)
      [] v.t = "Double" -> DoubleText(v)
      [] v.t = "Bool"   -> IF v.b THEN <<"t", "r", "u", "e">>
                           ELSE <<"f", "a", "l", "s", "e">>

\* QVariant::toString(): the empty string for a type with no conversion
toString(v) == IF canConvert(v, "String") THEN toByteArray(v) ELSE <<>>

\* a double from its sign, the digits before the point and those after it
DoubleOf(neg, ip, fr) ==
    IF AllDigits(ip) /\ AllDigits(fr) /\ (ip # <<>> \/ fr # <<>>)
    THEN [ok |-> TRUE,
          v  |-> DoubleV(neg /\ \E i \in 1..Len(ip \o fr) : (ip \o fr)[i] # "0",
                         IF ip = <<>> THEN <<"0">> ELSE StripZeros(ip),
                         StripTrailingZeros(fr))]
    ELSE [ok |-> FALSE, v |-> DoubleV(FALSE, <<"0">>, <<>>)]

DoubleAt(neg, u, dot) ==
    IF dot = -1 THEN DoubleOf(neg, u, <<>>)
    ELSE DoubleOf(neg, SubSeq(u, 1, dot), SubSeq(u, dot + 2, Len(u)))

DoubleFrom(t) == DoubleAt(t # <<>> /\ Head(t) = "-", Unsigned(t), indexOf(Unsigned(t), ".", 0))

\* QByteArray::toDouble(&ok) on white space, a sign, digits and a point
toDouble(s) == DoubleFrom(SkipSpace(s))

----------------------------------------------------------------------------
(* dump *)

\* what a dump_* helper leaves in tns_value, tns_type and ok
Dumped(tns_value, tns_type, isok) ==
    [tns_value |-> tns_value, tns_type |-> tns_type, ok |-> isok]

dump_int(v) ==
    IF canConvert(v, "ByteArray") THEN Dumped(toByteArray(v), TNS_INT, TRUE)
    ELSE Dumped(<<>>, TNS_NULL, FALSE)

dump_char(v) ==
    IF v.t = "Char" /\ canConvert(v, "String") THEN Dumped(toByteArray(v), TNS_STRING, TRUE)
    ELSE Dumped(<<>>, TNS_NULL, FALSE)

dump_string(v) ==
    IF canConvert(v, "ByteArray") THEN Dumped(toByteArray(v), TNS_STRING, TRUE)
    ELSE Dumped(<<>>, TNS_NULL, FALSE)

dump_float(v) ==
    IF canConvert(v, "ByteArray") THEN Dumped(toByteArray(v), TNS_FLOAT, TRUE)
    ELSE Dumped(<<>>, TNS_NULL, FALSE)

dump_bool(v) ==
    IF canConvert(v, "Bool") THEN Dumped(toByteArray(v), TNS_BOOL, TRUE)
    ELSE Dumped(<<>>, TNS_NULL, FALSE)

dump_unknown(v) ==
    IF canConvert(v, "String") /\ ~canConvert(v, "ByteArray")
    THEN Dumped(toByteArray(v), TNS_STRING, TRUE)
    ELSE IF canConvert(v, "ByteArray") THEN Dumped(toByteArray(v), TNS_STRING, TRUE)
    ELSE Dumped(<<>>, TNS_NULL, FALSE)

\* the keys of a QMap in the order its iterator visits them
RECURSIVE SortedKeys(_)
SortedKeys(keys) ==
    IF keys = {} THEN <<>>
    ELSE LET k == CHOOSE x \in keys : \A y \in keys \ {x} : StringLess(x, y)
         IN  <<k>> \o SortedKeys(keys \ {k})

RECURSIVE dump(_)
RECURSIVE dump_list_loop_all(_, _, _, _)
RECURSIVE dump_list_loop(_, _, _, _)
RECURSIVE dump_map_loop(_, _, _, _, _)

\* the loop of dump_list without its "&& ok": every element is dumped
dump_list_loop_all(list_value, i, tns_value, isok) ==
    IF i <= Len(list_value)
    THEN LET r == dump(list_value[i])
         IN  dump_list_loop_all(list_value, i + 1, tns_value \o r.tns, r.ok)
    ELSE [tns_value |-> tns_value, ok |-> isok]

\* while (iter != list_value.constEnd() && ok): each dump() sets ok anew
dump_list_loop(list_value, i, tns_value, isok) ==
    IF i <= Len(list_value) /\ isok
    THEN LET r == dump(list_value[i])
         IN  dump_list_loop(list_value, i + 1, tns_value \o r.tns, r.ok)
    ELSE [tns_value |-> tns_value, ok |-> isok]

dump_list(v) ==
    IF canConvert(v, "List")
    THEN LET r == dump_list_loop(v.l, 1, <<>>, TRUE)
         IN  Dumped(r.tns_value, TNS_LIST, r.ok)
    ELSE Dumped(<<>>, TNS_NULL, FALSE)

\* while (iter != map_value.constEnd() && ok): the key, then if (ok) the value
dump_map_loop(map_value, keys, i, tns_value, isok) ==
    IF i <= Len(keys) /\ isok
    THEN LET k == dump(StringV(keys[i]))
             w == IF k.ok THEN dump(map_value[keys[i]]) ELSE k
         IN  dump_map_loop(map_value, keys, i + 1,
                           tns_value \o k.tns \o (IF k.ok THEN w.tns ELSE <<>>), w.ok)
    ELSE [tns_value |-> tns_value, ok |-> isok]

dump_map(v) ==
    IF canConvert(v, "Map")
    THEN LET r == dump_map_loop(v.m, SortedKeys(DOMAIN v.m), 1, <<>>, TRUE)
         IN  Dumped(r.tns_value, TNS_MAP, r.ok)
    ELSE Dumped(<<>>, TNS_NULL, FALSE)

\* QTNetString::dump: [tns, ok]
dump(v) ==
    LET d == IF isNull(v) THEN Dumped(<<>>, TNS_NULL, TRUE)
             ELSE CASE v.t = "Int" -> dump_int(v)
                    [] v.t = "Char" -> dump_char(v)
                    [] v.t \in {"String", "ByteArray"} -> dump_string(v)
                    [] v.t = "Double" -> dump_float(v)
                    [] v.t = "Bool" -> dump_bool(v)
                    [] v.t = "List" -> dump_list(v)
                    [] v.t = "Map" -> dump_map(v)
                    [] OTHER -> dump_unknown(v)
    IN  IF d.ok
        THEN [tns |-> NatText(Len(d.tns_value)) \o <<COLON>> \o d.tns_value \o <<d.tns_type>>,
              ok  |-> TRUE]
        ELSE [tns |-> <<>>, ok |-> FALSE]

----------------------------------------------------------------------------
(* parse *)

NoSource == [t |-> "NoSource"]
NoDump == [tns |-> <<>>, ok |-> FALSE, called |-> FALSE]
NoPrev == [set |-> FALSE, value |-> Invalid]

\* the locals of parse_payload; st tells how far the call got
NoCall ==
    [st |-> "none", start_pos |-> 0, end_pos |-> 0, colon_pos |-> 0, ba_size |-> <<>>,
     pl_size |-> 0, pl_start |-> 0, pl_end |-> 0, tag |-> "", depth |-> 0]

\* how far parse_payload gets before it reads the type tag (lines 397-431)
HeaderState(payload, start_pos, end_pos, colon_pos, size, pl_end) ==
    IF Len(payload) <= 0 THEN "empty"
    ELSE IF start_pos > end_pos \/ (Len(payload) - 1) < end_pos THEN "positions"
    ELSE IF colon_pos = -1 \/ colon_pos > end_pos THEN "colon"
    ELSE IF ~size.ok THEN "size"
    ELSE IF pl_end >= end_pos THEN "notype"
    ELSE "tag"

\* the locals of parse_payload; one that the call did not reach is left as in NoCall
HeaderLocals(st, start_pos, end_pos, colon_pos, ba_size, size, depth) ==
    [st |-> st, start_pos |-> start_pos, end_pos |-> end_pos,
     colon_pos |-> IF st \in {"colon", "size", "notype", "tag"} THEN colon_pos ELSE 0,
     ba_size   |-> IF st \in {"size", "notype", "tag"} THEN ba_size ELSE <<>>,
     pl_size   |-> IF st \in {"notype", "tag"} THEN size.v ELSE 0,
     pl_start  |-> IF st \in {"notype", "tag"} THEN colon_pos + 1 ELSE 0,
     pl_end    |-> IF st \in {"notype", "tag"} THEN Add32(Add32(colon_pos + 1, size.v), -1)
                   ELSE 0,
     tag |-> "", depth |-> depth]

HeaderSized(payload, start_pos, end_pos, colon_pos, ba_size, size, depth) ==
    HeaderLocals(HeaderState(payload, start_pos, end_pos, colon_pos, size,
                             Add32(Add32(colon_pos + 1, size.v), -1)),
                 start_pos, end_pos, colon_pos, ba_size, size, depth)

HeaderAt(payload, start_pos, end_pos, colon_pos, ba_size, depth) ==
    HeaderSized(payload, start_pos, end_pos, colon_pos, ba_size, toInt(ba_size), depth)

\* parse_payload up to the read of the type tag (lines 397-431)
Header(payload, start_pos, end_pos, colon_pos, depth) ==
    HeaderAt(payload, start_pos, end_pos, colon_pos,
             mid(payload, start_pos, colon_pos - start_pos), depth)

\* pl_start + pl_size - 1 does not fit an int (line 426)
SizeOverflows(c) ==
    /\ c.st \in {"notype", "tag"}
    /\ Overflows(c.pl_start, c.pl_size) \/ Overflows(Add32(c.pl_start, c.pl_size), -1)

\* What payload.at(i) can give.  Outside the array the read is undefined: the
\* build aborts (Q_ASSERT) or returns whatever byte lies there.
Abort == "abort"
StrayBytes == {TNS_NULL, TNS_STRING, TNS_BOOL, TNS_INT, TNS_FLOAT, TNS_MAP, TNS_LIST, "x"}
TagRead(payload, i) ==
    IF 0 <= i /\ i < Len(payload) THEN {at(payload, i)} ELSE StrayBytes \cup {Abort}

\* the value the out-parameter this_end_pos gets (line 464)
EndPos(c) == Add32(Add32(c.pl_start, c.pl_size), 1)

\* the last index of the payload of a composite, the end bound of its sub-frames
Limit(f) == Add32(Add32(f.pl_start, f.pl_size), -1)

\* the locals of parse_list / parse_map, with those of the parse_payload that called
NewFrame(c) ==
    [type |-> IF c.tag = TNS_LIST THEN "list" ELSE "map",
     pl_start |-> c.pl_start, pl_size |-> c.pl_size, this_end_pos |-> c.pl_start,
     list |-> <<>>, map |-> <<>>, phase |-> "key", map_key |-> Invalid, caller |-> c]

\* map[map_key.toString()] = map_value
MapSet(m, k, v) == [x \in (DOMAIN m) \cup {k} |-> IF x = k THEN v ELSE m[x]]

\* the while condition of parse_list and parse_map
MoreSubFrames(f) == f.this_end_pos < Limit(f)

\* a key test that takes whatever converts to a string
KeyConvertible(map_key) == canConvert(map_key, "String")

\* the key test of parse_map (line 366)
KeyAccepted(map_key) == map_key.t = "ByteArray"

\* any failure: every caller up to parse() returns at once, parse() clears the value
Fail(c) ==
    /\ pc' = "done"
    /\ ok' = FALSE
    /\ value' = Invalid
    /\ stack' = <<>>
    /\ call' = c

\* the frame f of parse_list / parse_map after parse_payload gave it v with ok
\* set; ok is false when parse_map refuses v as a key
Accept(f, v, c) ==
    IF f.type = "list"
    THEN [ok |-> TRUE,
          frame |-> [f EXCEPT !.list = Append(@, v), !.this_end_pos = EndPos(c)]]
    ELSE IF f.phase = "key"
    THEN [ok |-> KeyAccepted(v),
          frame |-> [f EXCEPT !.map_key = v, !.phase = "value",
                              !.this_end_pos = EndPos(c)]]
    ELSE [ok |-> TRUE,
          frame |-> [f EXCEPT !.map = MapSet(@, toString(f.map_key), v),
                              !.phase = "key", !.this_end_pos = EndPos(c)]]

\* the caller takes what Accept made of its frame, or fails with it
Accepted(stk, a, c) ==
    IF a.ok
    THEN /\ stack' = [stk EXCEPT ![Len(stk)] = a.frame]
         /\ call' = c
         /\ pc' = "parsing"
         /\ ok' = TRUE
         /\ UNCHANGED value
    ELSE Fail(c)

\* parse_payload called from the frame on top of stk returns v with ok set
Return(stk, v, c) ==
    IF stk = <<>>
    THEN /\ pc' = "done"
         /\ ok' = TRUE
         /\ value' = v
         /\ stack' = <<>>
         /\ call' = c
    ELSE Accepted(stk, Accept(stk[Len(stk)], v, c), c)

IntResult(i) == [ok |-> i.ok, v |-> IntV(i.v)]

\* the value of a frame that has no sub-frames to parse (lines 433-461)
DecodedFrom(tag, pl_data) ==
    CASE tag = TNS_NULL -> [ok |-> TRUE, v |-> Invalid]
      [] tag = TNS_STRING -> [ok |-> TRUE, v |-> BytesV(pl_data)]
      [] tag = TNS_BOOL -> [ok |-> TRUE, v |-> BoolV(pl_data = <<"t", "r", "u", "e">>)]
      [] tag = TNS_INT -> IntResult(toInt(pl_data))
      [] tag = TNS_FLOAT -> toDouble(pl_data)
      [] tag = TNS_LIST -> [ok |-> TRUE, v |-> ListV(<<>>)]
      [] tag = TNS_MAP -> [ok |-> TRUE, v |-> MapV(<<>>)]
      [] OTHER -> [ok |-> FALSE, v |-> Invalid]

Decoded(c) == DecodedFrom(c.tag, mid(buf, c.pl_start, c.pl_size))

\* parse_payload ends: its value goes to the caller, or ok is false
Finish(stk, c, r) == IF r.ok THEN Return(stk, r.v, c) ELSE Fail(c)

\* the switch of parse_payload on the type tag: a list or map of a size other
\* than 0 runs its loop, every other frame returns at once
Dispatch(stk, c) ==
    IF c.tag = Abort
    THEN /\ pc' = "aborted"
         /\ call' = c
         /\ ok' = TRUE
         /\ UNCHANGED <<value, stack>>
    ELSE IF c.tag \in {TNS_MAP, TNS_LIST} /\ c.pl_size # 0
    THEN /\ stack' = Append(stk, NewFrame(c))
         /\ call' = c
         /\ pc' = "parsing"
         /\ ok' = TRUE
         /\ UNCHANGED value
    ELSE Finish(stk, c, Decoded(c))

\* parse_payload from its header h on
Called(stk, h) ==
    IF h.st # "tag"
    THEN /\ Fail(h)
         /\ undefined' = (undefined \/ SizeOverflows(h))
    ELSE /\ \E tag \in TagRead(buf, h.pl_end + 1) : Dispatch(stk, [h EXCEPT !.tag = tag])
         /\ undefined' = (undefined \/ SizeOverflows(h)
                                    \/ h.pl_end + 1 < 0 \/ h.pl_end + 1 >= Len(buf))

\* one call of parse_payload from the frame on top of stk
parse_payload(stk, start_pos, end_pos) ==
    Called(stk, Header(buf, start_pos, end_pos, indexOf(buf, COLON, start_pos), Len(stk)))

Top == stack[Len(stack)]

\* QTNetString::parse: ok = true, then the first parse_payload or "tns is empty"
Parse ==
    /\ pc = "ready"
    /\ IF Len(buf) > 0 THEN parse_payload(<<>>, 0, Len(buf) - 1)
       ELSE Fail(NoCall) /\ UNCHANGED undefined
    /\ UNCHANGED <<src, dumped, buf, prev>>

\* one turn of the while loop of parse_list
ListIter ==
    /\ pc = "parsing"
    /\ Top.type = "list"
    /\ MoreSubFrames(Top)
    /\ Len(Top.list) < MaxAppend
    /\ parse_payload(stack, Top.this_end_pos, Limit(Top))
    /\ UNCHANGED <<src, dumped, buf, prev>>

\* parse_list leaves its loop with ok set: the list is the value of its frame
ListExit ==
    /\ pc = "parsing"
    /\ Top.type = "list"
    /\ ~MoreSubFrames(Top)
    /\ Return(SubSeq(stack, 1, Len(stack) - 1), ListV(Top.list), Top.caller)
    /\ UNCHANGED <<src, dumped, buf, prev, undefined>>

\* the first parse_payload of a turn of the while loop of parse_map
MapKey ==
    /\ pc = "parsing"
    /\ Top.type = "map"
    /\ Top.phase = "key"
    /\ MoreSubFrames(Top)
    /\ parse_payload(stack, Top.this_end_pos, Limit(Top))
    /\ UNCHANGED <<src, dumped, buf, prev>>

\* the second parse_payload of the turn, after a key that is a byte array
MapValue ==
    /\ pc = "parsing"
    /\ Top.type = "map"
    /\ Top.phase = "value"
    /\ parse_payload(stack, Top.this_end_pos, Limit(Top))
    /\ UNCHANGED <<src, dumped, buf, prev>>

\* parse_map leaves its loop with ok set
MapExit ==
    /\ pc = "parsing"
    /\ Top.type = "map"
    /\ Top.phase = "key"
    /\ ~MoreSubFrames(Top)
    /\ Return(SubSeq(stack, 1, Len(stack) - 1), MapV(Top.map), Top.caller)
    /\ UNCHANGED <<src, dumped, buf, prev, undefined>>

\* main.cpp: bytes are appended to a frame and the buffer is parsed again
Suffixes == {<<"x">>, <<COLON>>, <<"0", COLON, TNS_NULL>>}
Extend ==
    /\ pc = "done"
    /\ ok
    /\ ~prev.set
    /\ src = NoSource
    /\ \E suffix \in Suffixes : buf' = buf \o suffix
    /\ prev' = [set |-> TRUE, value |-> value]
    /\ pc' = "ready"
    /\ call' = NoCall
    /\ UNCHANGED <<src, dumped, stack, ok, value, undefined>>

\* main.cpp: QTNetString::dump(value, ok); the frame is parsed when ok
Dump ==
    /\ pc = "dump"
    /\ LET r == dump(src)
       IN  /\ dumped' = [tns |-> r.tns, ok |-> r.ok, called |-> TRUE]
           /\ buf' = r.tns
           /\ pc' = IF r.ok THEN "ready" ELSE "nodump"
    /\ UNCHANGED <<src, stack, ok, value, call, prev, undefined>>

----------------------------------------------------------------------------
(* The buffers parse() is given *)

Alphabet == {"0", "1", COLON, "-", TNS_NULL, TNS_STRING, TNS_LIST, TNS_MAP}

Strings(n) == UNION {[1..k -> Alphabet] : k \in 0..n}

\* complete small frames, a header with a negative size and a stray byte
Pieces ==
    { <<"0", COLON, TNS_NULL>>,
      <<"0", COLON, TNS_STRING>>,
      <<"1", COLON, "a", TNS_STRING>>,
      <<"1", COLON, "1", TNS_INT>>,
      <<"1", COLON, "5", TNS_FLOAT>>,
      <<"4", COLON, "t", "r", "u", "e", TNS_BOOL>>,
      <<"1", COLON, "a", TNS_NULL>>,
      <<"0", COLON, TNS_LIST>>,
      <<"3", COLON, "0", COLON, TNS_NULL, TNS_LIST>>,
      <<"6", COLON, "0", COLON, TNS_STRING, "0", COLON, TNS_NULL, TNS_MAP>>,
      <<"3", COLON, "0", COLON, TNS_NULL, TNS_MAP>>,
      <<"3", COLON, "0", COLON, TNS_STRING, TNS_MAP>>,
      <<"-", "4", COLON>>,
      <<"x">> }

RECURSIVE Concat(_)
Concat(ss) == IF ss = <<>> THEN <<>> ELSE Head(ss) \o Concat(Tail(ss))

Bodies == {Concat(ss) : ss \in UNION {[1..k -> Pieces] : k \in 0..MaxItems}}

\* the declared size is the length of the payload or one less
Deltas == {-1, 0}
SizeText(n) == IF n < 0 THEN <<"-">> \o NatText(-n) ELSE NatText(n)
Frame(body, delta, tag) == SizeText(Len(body) + delta) \o <<COLON>> \o body \o <<tag>>

Framed == {Frame(b, d, t) : b \in Bodies, d \in Deltas, t \in {TNS_LIST, TNS_MAP}}

Samples ==
    { <<"1", "0", COLON, "3", COLON, TNS_STRING, "4", COLON, TNS_STRING,
        "-", "7", COLON, TNS_STRING, TNS_LIST>>,
      <<"0", "0", "0", "0", "0", "0", "0", "0", "0", "0", COLON, TNS_NULL>>,
      <<"+", "0", COLON, TNS_NULL>>,
      <<" ", "0", COLON, TNS_NULL>>,
      <<"2", "1", "4", "7", "4", "8", "3", "6", "4", "7", COLON, TNS_NULL>>,
      <<"5", COLON, "h", "e", "l", "l", "o", TNS_STRING>>,
      <<"3", COLON, "a", "b", "c", TNS_INT>> }

Inputs == Strings(MaxLen) \cup Framed \cup Samples

----------------------------------------------------------------------------
(* Specifications *)

InitCommon ==
    /\ dumped = NoDump
    /\ stack = <<>>
    /\ ok = FALSE
    /\ value = Invalid
    /\ call = NoCall
    /\ undefined = FALSE
    /\ prev = NoPrev

\* parse() on a buffer
Init ==
    /\ src = NoSource
    /\ buf \in Inputs
    /\ pc = "ready"
    /\ InitCommon

Next ==
    \/ Parse
    \/ ListIter
    \/ ListExit
    \/ MapKey
    \/ MapValue
    \/ MapExit
    \/ Extend

Spec == Init /\ [][Next]_vars

----------------------------------------------------------------------------
(* The values dump() is given *)

Scalars ==
    { Invalid, BoolV(TRUE), BoolV(FALSE),
      IntV(0), IntV(-4), IntV(INT_MAX),
      LongLongV(FALSE, <<2, 147483648>>),             \* INT_MAX + 1
      LongLongV(TRUE, <<9, 223372036, 854775808>>),   \* LLONG_MIN
      BytesV(<<>>), BytesV(<<"a">>), BytesV(<<"0", COLON, TNS_NULL>>),
      DoubleV(FALSE, <<"3">>, <<"5">>),
      CharV("u"), DateTimeV(<<"T">>), RectV }

Keys == {<<>>, <<"a">>, <<"b">>}
MaxKeys == 2

ListsOf(S, n) == {ListV(l) : l \in UNION {[1..k -> S] : k \in 0..n}}
MapsOf(S, n) ==
    {MapV(m) : m \in UNION {[K -> S] : K \in {X \in SUBSET Keys : Cardinality(X) <= n}}}

Flat == Scalars \cup ListsOf(Scalars, MaxList) \cup MapsOf(Scalars, MaxKeys)
Small == Scalars \cup ListsOf(Scalars, 1) \cup MapsOf(Scalars, 1)

Nested ==
    UNION { { ListV(<<v>>), ListV(<<v, BoolV(TRUE)>>), ListV(<<Invalid, v>>),
              MapV(<<"a">> :> v), MapV((<<"a">> :> v) @@ (<<"b">> :> Invalid)),
              MapV((<<"a">> :> IntV(0)) @@ (<<"b">> :> v)) } : v \in Small }

Values == Flat \cup Nested

\* dump() on a value, then parse() on the frame
InitDump ==
    /\ src \in Values
    /\ buf = <<>>
    /\ pc = "dump"
    /\ InitCommon

NextDump ==
    \/ Dump
    \/ Parse
    \/ ListIter
    \/ ListExit
    \/ MapKey
    \/ MapValue
    \/ MapExit

SpecDump == InitDump /\ [][NextDump]_vars

----------------------------------------------------------------------------
(* Claims *)

Tags == {TNS_NULL, TNS_STRING, TNS_BOOL, TNS_INT, TNS_FLOAT, TNS_MAP, TNS_LIST}

\* a value built from Null, Bool, Int, Bytes, List and Map alone
RECURSIVE Plain(_)
Plain(v) ==
    CASE v.t \in {"Invalid", "Bool", "Int", "ByteArray"} -> TRUE
      [] v.t = "List" -> \A i \in 1..Len(v.l) : Plain(v.l[i])
      [] v.t = "Map" -> \A k \in DOMAIN v.m : Plain(v.m[k])
      [] OTHER -> FALSE

\* C1: for every value v of Null, Bool, Int (any 64-bit integer), Bytes, List and
\* Map, dump(v) succeeds and parse(dump(v)) succeeds and returns v.
C1_RoundTrip ==
    (src # NoSource /\ Plain(src)) =>
        /\ dumped.called => dumped.ok
        /\ pc \in {"done", "aborted"} => (pc = "done" /\ ok /\ value = src)

\* C2: when parse(buf) succeeds, parse(buf + suffix) succeeds with the same value,
\* whatever the suffix.
C2_TrailingIgnored ==
    (prev.set /\ ~undefined /\ pc = "done") => (ok /\ value = prev.value)

\* a value every part of which some dump_* helper can encode
RECURSIVE Encodable(_)
Encodable(v) ==
    CASE v.t = "Rect" -> FALSE
      [] v.t = "List" -> \A i \in 1..Len(v.l) : Encodable(v.l[i])
      [] v.t = "Map" -> \A k \in DOMAIN v.m : Encodable(v.m[k])
      [] OTHER -> TRUE

\* SIZE ':' DATA TAG with SIZE the decimal length of DATA
WholeFrameAt(tns, colon_pos) ==
    /\ colon_pos >= 1
    /\ SubSeq(tns, 1, colon_pos) = NatText(Len(tns) - colon_pos - 2)
    /\ tns[Len(tns)] \in Tags
WholeFrame(tns) == WholeFrameAt(tns, indexOf(tns, COLON, 0))

\* C3: dump() of a value with a descendant that cannot be encoded sets ok to false
\* and returns the empty array, never a part of a frame; ok is true exactly when a
\* complete frame is returned.
C3_Atomic ==
    dumped.called =>
        /\ ~Encodable(src) => (~dumped.ok /\ dumped.tns = <<>>)
        /\ dumped.ok <=> WholeFrame(dumped.tns)

\* a QList whose second element fails after its first was encoded
C3_Witness ==
    /\ dumped.called
    /\ ~dumped.ok
    /\ dumped.tns = <<>>
    /\ src.t = "List"
    /\ Len(src.l) = 2
    /\ src.l[1].t = "ByteArray"
    /\ src.l[2] = RectV

\* SIZE = [0-9]{1,9}
SizeShape(ba_size) == Len(ba_size) \in 1..9 /\ AllDigits(ba_size)

\* C4: at every nesting level a size prefix that is not 1 to 9 decimal digits makes
\* parse() fail with ok = false.
C4_SizePrefix ==
    (call.st \in {"size", "notype", "tag"} /\ ~SizeShape(call.ba_size)) =>
        (pc = "done" /\ ~ok)

ShortestFrame == <<"0", COLON, TNS_NULL>>

\* this step returns a sub-frame to the parse_map frame d, which awaits a key
KeyReturn(d) ==
    /\ pc = "parsing"
    /\ pc' # "aborted"
    /\ stack[d].type = "map"
    /\ stack[d].phase = "key"
    /\ call'.st = "tag"
    /\ call'.depth = d
    /\ \/ Len(stack) = d /\ ~(pc' = "parsing" /\ Len(stack') = d + 1)
       \/ Len(stack) = d + 1 /\ ~MoreSubFrames(Top) /\ Top.phase = "key"
                             /\ call' = Top.caller

Rejected == pc' = "done" /\ ~ok' /\ value' = Invalid

\* C5: in a Map frame at any depth a key sub-frame whose tag is not ',' makes
\* parse() fail with an invalid result, a key of tag ',' is followed by its value,
\* a key with no frame after it makes parse() fail, and a Map is returned only
\* after whole (key, value) pairs.
C5_MapKeys ==
    [][ /\ \A d \in 1..Len(stack) :
              KeyReturn(d) =>
                  IF call'.tag = TNS_STRING
                  THEN /\ pc' = "parsing"
                       /\ stack'[d].phase = "value"
                       /\ stack'[d].map_key = BytesV(mid(buf, call'.pl_start, call'.pl_size))
                  ELSE Rejected
        /\ (/\ pc = "parsing"
            /\ Top.type = "map"
            /\ Top.phase = "value"
            /\ Limit(Top) - Top.this_end_pos + 1 < Len(ShortestFrame)) => Rejected
        /\ (/\ pc = "parsing"
            /\ Top.type = "map"
            /\ Len(stack') < Len(stack)
            /\ pc' = "parsing" \/ (pc' = "done" /\ ok')) => Top.phase = "key"
      ]_vars

\* a key of tag '~' in a Map that is itself a sub-frame is refused
C5_Witness ==
    /\ pc = "done"
    /\ ~ok
    /\ value = Invalid
    /\ ~undefined
    /\ call.st = "tag"
    /\ call.tag = TNS_NULL
    /\ call.pl_size = 0
    /\ call.depth >= 2

\* C6: a frame of tag '~' with a size other than 0 makes parse() fail, at top level
\* and as a sub-frame.
C6_NullEmpty ==
    (~undefined /\ call.st = "tag" /\ call.tag = TNS_NULL /\ call.pl_size # 0) =>
        (pc = "done" /\ ~ok)

\* the sub-frame of locals c, tag byte included, lies in the payload of frame p
InsideParent(c, p) ==
    /\ p.pl_start <= c.start_pos
    /\ c.start_pos < c.colon_pos
    /\ c.colon_pos < c.pl_start
    /\ c.pl_start <= c.pl_end + 1
    /\ c.pl_end + 1 <= Limit(p)

\* C7: a frame whose payload window ends at or after the end bound in force makes
\* parse() fail, so every sub-frame that was decoded lies inside the payload
\* window of its parent.
C7_Truncated ==
    /\ (call.st \in {"notype", "tag"} /\ call.pl_end >= call.end_pos) => (pc = "done" /\ ~ok)
    /\ (pc = "parsing" /\ ~undefined /\ call.st = "tag" /\ call.depth >= 1) =>
           InsideParent(call, stack[call.depth])

\* C8: every turn of a sub-frame loop strictly advances this_end_pos.
C8_Advances ==
    [][ ~undefined' =>
            \A i \in 1..Len(stack) :
                (i <= Len(stack') /\ stack'[i] # stack[i]) =>
                    stack'[i].this_end_pos > stack[i].this_end_pos
      ]_vars

\* C9: the type tag is read at an index with start_pos < index <= end_pos <
\* len(buffer), the payload window has a size >= 0 and lies in [start_pos, end_pos],
\* and no input ends otherwise than with a result.
C9_InBounds ==
    /\ pc # "aborted"
    /\ ~undefined
    /\ call.st = "tag" =>
           /\ call.start_pos < call.pl_end + 1
           /\ call.pl_end + 1 <= call.end_pos
           /\ call.end_pos < Len(buf)
           /\ 0 <= call.pl_size
           /\ call.start_pos <= call.pl_start
           /\ call.pl_end <= call.end_pos

\* C10: a List or Map leaves its loop only when the sub-frames read so far end
\* at pl_start + pl_size, the end of its payload.
C10_ExactPayload ==
    (pc = "parsing" /\ ~undefined /\ ~MoreSubFrames(Top) /\ Top.phase = "key") =>
        Top.this_end_pos = Top.pl_start + Top.pl_size

====
